---- MODULE Spec2Model ----
(***************************************************************************)
(* A model of dandi/models.py: the JSON-LD enum loader (create_enum), the  *)
(* label formatter (split_name) and the term graph generator               *)
(* (model2graph).  Strings are sequences of one-character strings, so that *)
(* replace, split, upper, lower and capitalize are computed, not assumed.  *)
(***************************************************************************)
EXTENDS Integers, Sequences, FiniteSets, TLC

VARIABLES
    pc,         \* position of the running function
    data,       \* create_enum: data["@graph"], a sequence of nodes
    idx,        \* create_enum: index of the node the loop reads next
    items,      \* create_enum: the dict items, in insertion order
    klass,      \* create_enum: the local klass
    klass_doc,  \* create_enum: the local klass_doc
    newklass,   \* create_enum: the Enum returned, or NoEnum
    error,      \* the exception raised by the running function, or "none"
    name,       \* split_name: the argument
    label,      \* split_name: the value returned
    relabel,    \* split_name applied to the value returned
    model,      \* model2graph: the argument
    m2g_klass,  \* model2graph: the dict klass
    graph,      \* model2graph: the list graph
    fidx,       \* model2graph: index, in sorted(model.__fields__.items()), of the next field
    terms_file, \* model2graph: what was written to terms/<name>.yaml, or NotWritten
    jsonld_doc, \* model2graph: the document returned, or NoDoc
    values,     \* check_data: the contributors handed to the validator
    vidx,       \* check_data: index of the contributor the loop reads next
    contacts,   \* check_data: the list contacts
    validated   \* check_data: the list returned, or NotValidated

enumVars == <<data, idx, items, klass, klass_doc, newklass>>

splitVars == <<name, label, relabel>>

graphVars == <<model, m2g_klass, graph, fidx, terms_file, jsonld_doc>>

checkVars == <<values, vidx, contacts, validated>>

vars == <<pc, error, enumVars, splitVars, graphVars, checkVars>>

(***************************************************************************)
(* Python str methods                                                      *)
(***************************************************************************)
Lowers == <<"a","b","c","d","e","f","g","h","i","j","k","l","m",
            "n","o","p","q","r","s","t","u","v","w","x","y","z">>

Uppers == <<"A","B","C","D","E","F","G","H","I","J","K","L","M",
            "N","O","P","Q","R","S","T","U","V","W","X","Y","Z">>

Range(s) == {s[i] : i \in DOMAIN s}

\* str.upper() of one character
upper(c) ==
    IF \E i \in DOMAIN Lowers : Lowers[i] = c
    THEN Uppers[CHOOSE i \in DOMAIN Lowers : Lowers[i] = c]
    ELSE c

\* str.lower() of one character
lower(c) ==
    IF \E i \in DOMAIN Uppers : Uppers[i] = c
    THEN Lowers[CHOOSE i \in DOMAIN Uppers : Uppers[i] = c]
    ELSE c

\* str.lower() of a string
Lower(s) == [i \in DOMAIN s |-> lower(s[i])]

\* str.upper() of a string, in the place of str.capitalize()
UpperAll(s) == [i \in DOMAIN s |-> upper(s[i])]

\* str.capitalize(): first character upper-cased, the rest lower-cased
Capitalize(s) == [i \in DOMAIN s |-> IF i = 1 THEN upper(s[i]) ELSE lower(s[i])]

\* s.startswith(t)
StartsWith(s, t) == Len(t) <= Len(s) /\ SubSeq(s, 1, Len(t)) = t

Tail_n(s, n) == SubSeq(s, n + 1, Len(s))

\* s.replace(old, new) for a non-empty old: leftmost non-overlapping occurrences
RECURSIVE Replace(_, _, _)
Replace(s, old, new) ==
    IF s = <<>> THEN <<>>
    ELSE IF StartsWith(s, old) THEN new \o Replace(Tail_n(s, Len(old)), old, new)
    ELSE <<Head(s)>> \o Replace(Tail(s), old, new)

\* c in s, for a one-character c
Contains(s, c) == \E i \in DOMAIN s : s[i] = c

\* s.split(c)[-1]: what follows the last occurrence of c
LastSegment(s, c) ==
    IF Contains(s, c)
    THEN Tail_n(s, CHOOSE i \in DOMAIN s : s[i] = c /\ \A j \in DOMAIN s : s[j] = c => j <= i)
    ELSE s

(***************************************************************************)
(* dict, in insertion order: a sequence of [key, value] without repeated   *)
(* keys                                                                    *)
(***************************************************************************)
Keys(d) == {d[i].key : i \in DOMAIN d}

Get(d, k) == d[CHOOSE i \in DOMAIN d : d[i].key = k].value

\* d[k] = v
DictSet(d, k, v) ==
    IF k \in Keys(d)
    THEN [i \in DOMAIN d |-> IF d[i].key = k THEN [key |-> k, value |-> v] ELSE d[i]]
    ELSE Append(d, [key |-> k, value |-> v])

(***************************************************************************)
(* The variables of the functions that are not running                     *)
(***************************************************************************)
None == <<"None">>

NoEnum == [name |-> None, members |-> <<>>, doc |-> "unbound"]

NoDoc == [context |-> None, graph |-> <<>>]

NotWritten == [path |-> None, banner |-> None, doc |-> NoDoc]

NoModel == [name |-> None, doc |-> None, ldmeta |-> <<>>, fields |-> <<>>]

EnumIdle ==
    /\ data = <<>>
    /\ idx = 1
    /\ items = <<>>
    /\ klass = None
    /\ klass_doc = "unbound"
    /\ newklass = NoEnum

SplitIdle ==
    /\ name = <<>>
    /\ label = <<>>
    /\ relabel = <<>>

GraphIdle ==
    /\ model = NoModel
    /\ m2g_klass = <<>>
    /\ graph = <<>>
    /\ fidx = 1
    /\ terms_file = NotWritten
    /\ jsonld_doc = NoDoc

NotValidated == [returned |-> FALSE, value |-> <<>>]

CheckIdle ==
    /\ values = <<>>
    /\ vidx = 1
    /\ contacts = <<>>
    /\ validated = NotValidated

(***************************************************************************)
(* create_enum                                                             *)
(***************************************************************************)
MaxNodes == 3

RdfsClass == "rdfs:Class"

DandiPrefix == <<"d","a","n","d","i",":">>

\* the vocabulary documents the loader is run on
Prefixes == {<<"d">>, <<"o">>, <<"x","-">>}

Locals == {<<"a">>, <<"a","-","b">>, <<"a","_","b">>, <<"a",".","b">>}

ExtraIds == {<<"o","_","a">>, <<"d",":","o",":","a">>}

ItemIds == Locals \cup {p \o <<":">> \o l : p \in Prefixes, l \in Locals} \cup ExtraIds

ItemNodes == {[type |-> "dandi:Item", id |-> i, comment |-> ""] : i \in ItemIds}

ClassNodes ==
    { [type |-> RdfsClass, id |-> DandiPrefix \o <<"T">>, comment |-> "doc of T"],
      [type |-> RdfsClass, id |-> <<"U">>, comment |-> "doc of U"],
      [type |-> RdfsClass, id |-> <<"o">> \o DandiPrefix \o <<"T">>,
       comment |-> "doc of odandi:T"] }

Nodes == ItemNodes \cup ClassNodes

\* the nodes of a graph have pairwise distinct @id
Docs ==
    UNION { {d \in [1..n -> Nodes] : \A i, j \in 1..n : d[i].id = d[j].id => i = j}
            : n \in 0..MaxNodes }

\* key = item["@id"]; if ":" in item["@id"]: key = item["@id"].split(":")[-1]
CandidateKey(id) == IF Contains(id, ":") THEN LastSegment(id, ":") ELSE id

\* if key in items: key = item["@id"].replace(":", "_")
ItemKey(its, id) ==
    IF CandidateKey(id) \in Keys(its)
    THEN Replace(id, <<":">>, <<"_">>)
    ELSE CandidateKey(id)

\* key.replace("-", "_")
StoredKey(key) == Replace(key, <<"-">>, <<"_">>)

\* a loader that normalises the identifier it stores as well as the key
AddItemNormalizedValue(its, id) == DictSet(its, StoredKey(ItemKey(its, id)), StoredKey(id))

\* items[key.replace("-", "_")] = item["@id"]
AddItem(its, id) == DictSet(its, StoredKey(ItemKey(its, id)), id)

\* klass = item["@id"].replace("dandi:", "")
KlassName(id) == Replace(id, DandiPrefix, <<>>)

\* a loader that raises only when both the class and the items are missing
MalformedBoth(k, its) == k = None /\ Len(its) = 0

\* klass is None or len(items) == 0
Malformed(k, its) == k = None \/ Len(its) = 0

InitEnum ==
    /\ pc = "create_enum"
    /\ error = "none"
    /\ data \in Docs
    /\ idx = 1
    /\ items = <<>>
    /\ klass = None
    /\ klass_doc = "unbound"
    /\ newklass = NoEnum
    /\ SplitIdle
    /\ GraphIdle
    /\ CheckIdle

\* one iteration of the loop on a node typed rdfs:Class
LoopClass ==
    /\ pc = "create_enum"
    /\ idx <= Len(data)
    /\ data[idx].type = RdfsClass
    /\ klass' = KlassName(data[idx].id)
    /\ klass_doc' = data[idx].comment
    /\ idx' = idx + 1
    /\ UNCHANGED <<pc, data, items, newklass, error, splitVars, graphVars, checkVars>>

\* one iteration of the loop on any other node
LoopItem ==
    /\ pc = "create_enum"
    /\ idx <= Len(data)
    /\ data[idx].type # RdfsClass
    /\ items' = AddItem(items, data[idx].id)
    /\ idx' = idx + 1
    /\ UNCHANGED <<pc, data, klass, klass_doc, newklass, error, splitVars, graphVars, checkVars>>

\* raise ValueError(...)
EnumRaise ==
    /\ pc = "create_enum"
    /\ idx > Len(data)
    /\ Malformed(klass, items)
    /\ pc' = "raised"
    /\ error' = "ValueError"
    /\ UNCHANGED <<enumVars, splitVars, graphVars, checkVars>>

\* newklass = Enum(klass, items); newklass.__doc__ = klass_doc; return newklass
EnumReturn ==
    /\ pc = "create_enum"
    /\ idx > Len(data)
    /\ ~Malformed(klass, items)
    /\ newklass' = [name |-> klass, members |-> items, doc |-> klass_doc]
    /\ pc' = "returned"
    /\ UNCHANGED <<data, idx, items, klass, klass_doc, error, splitVars, graphVars, checkVars>>

NextEnum == LoopClass \/ LoopItem \/ EnumRaise \/ EnumReturn

SpecEnum == InitEnum /\ [][NextEnum]_vars

(***************************************************************************)
(* split_name                                                              *)
(***************************************************************************)
MaxNameLen == 4

NameChars == {"a", "b", "A", "B", "1", "_", " "}

Names == UNION {[1..n -> NameChars] : n \in 0..MaxNameLen}

Whitespace == {" ", "\t", "\n"}

\* a formatter that tests c.lower() == c
IsLowerInvariant(c) == lower(c) = c

\* c.upper() == c
IsUpperInvariant(c) == upper(c) = c

\* for c in name: if c.upper() == c: space_added.append(" "); space_added.append(c)
RECURSIVE SpaceAdded(_)
SpaceAdded(n) ==
    IF n = <<>> THEN <<>>
    ELSE (IF IsUpperInvariant(Head(n)) THEN <<" ", Head(n)>> ELSE <<Head(n)>>)
         \o SpaceAdded(Tail(n))

\* the first word of s and what follows it, s starting with no whitespace
RECURSIVE WordEnd(_, _)
WordEnd(s, i) ==
    IF i > Len(s) \/ s[i] \in Whitespace THEN i - 1 ELSE WordEnd(s, i + 1)

\* str.split(): the maximal runs of non-whitespace characters
RECURSIVE Split(_)
Split(s) ==
    IF s = <<>> THEN <<>>
    ELSE IF Head(s) \in Whitespace THEN Split(Tail(s))
    ELSE <<SubSeq(s, 1, WordEnd(s, 1))>> \o Split(Tail_n(s, WordEnd(s, 1)))

\* " ".join(words)
RECURSIVE Join(_)
Join(words) ==
    IF words = <<>> THEN <<>>
    ELSE IF Len(words) = 1 THEN words[1]
    ELSE words[1] \o <<" ">> \o Join(Tail(words))

\* labels = "".join(space_added).split()
Labels(n) == Split(SpaceAdded(n))

\* a formatter that leaves the later words as they are
Unchanged(s) == s

\* labels[idx] = labels[idx].lower()
LowerLabel(s) == Lower(s)

\* labels[0] = labels[0].capitalize(); for idx in range(1, len(labels)): ...
Formatted(labels) ==
    [i \in DOMAIN labels |->
        IF i = 1 THEN Capitalize(labels[i]) ELSE LowerLabel(labels[i])]

\* labels[0] raises IndexError on an empty list
SplitNameRaises(n) == Labels(n) = <<>>

\* the value split_name returns, when it raises nothing
split_name(n) == Join(Formatted(Labels(n)))

InitSplit ==
    /\ pc = "split_name"
    /\ error = "none"
    /\ name \in Names
    /\ label = <<>>
    /\ relabel = <<>>
    /\ EnumIdle
    /\ GraphIdle
    /\ CheckIdle

\* split_name(name) returns
SplitReturn ==
    /\ pc = "split_name"
    /\ ~SplitNameRaises(name)
    /\ label' = split_name(name)
    /\ pc' = "returned"
    /\ UNCHANGED <<error, name, relabel, enumVars, graphVars, checkVars>>

\* split_name(name) raises IndexError at labels[0]
SplitRaise ==
    /\ pc = "split_name"
    /\ SplitNameRaises(name)
    /\ error' = "IndexError"
    /\ pc' = "raised"
    /\ UNCHANGED <<enumVars, splitVars, graphVars, checkVars>>

\* split_name applied to the label it returned
SplitAgain ==
    /\ pc = "returned"
    /\ ~SplitNameRaises(label)
    /\ relabel' = split_name(label)
    /\ pc' = "relabelled"
    /\ UNCHANGED <<error, name, label, enumVars, graphVars, checkVars>>

NextSplit == SplitReturn \/ SplitRaise \/ SplitAgain

SpecSplit == InitSplit /\ [][NextSplit]_vars

(***************************************************************************)
(* model2graph                                                             *)
(***************************************************************************)
MaxFields == 2

\* the characters of keys and field names, in code point order
CodePointOrder ==
    <<" ", "-", ".", "0", "1", "2", "3", "4", "5", "6", "7", "8", "9", ":", "@">>
    \o Uppers \o <<"_">> \o Lowers

Ord(c) == CHOOSE i \in DOMAIN CodePointOrder : CodePointOrder[i] = c

\* a < b for str: the first differing character decides, a proper prefix is less
RECURSIVE StrLess(_, _)
StrLess(a, b) ==
    IF b = <<>> THEN FALSE
    ELSE IF a = <<>> THEN TRUE
    ELSE IF Head(a) = Head(b) THEN StrLess(Tail(a), Tail(b))
    ELSE Ord(Head(a)) < Ord(Head(b))

\* an entry put at its place in a sequence of entries sorted by key
Insert(e, d) ==
    LET k == Cardinality({i \in DOMAIN d : StrLess(d[i].key, e.key)})
    IN  SubSeq(d, 1, k) \o <<e>> \o SubSeq(d, k + 1, Len(d))

\* a dict left in insertion order
InsertionOrder(d) == d

\* dict(sorted(d.items()))
RECURSIVE Sorted(_)
Sorted(d) ==
    IF d = <<>> THEN <<>>
    ELSE Insert(d[Len(d)], Sorted(SubSeq(d, 1, Len(d) - 1)))

K_id == <<"@","i","d">>

K_type == <<"@","t","y","p","e">>

K_rdf_type == <<"r","d","f",":","t","y","p","e">>

K_comment == <<"r","d","f","s",":","c","o","m","m","e","n","t">>

K_label == <<"r","d","f","s",":","l","a","b","e","l">>

K_subClassOf == <<"r","d","f","s",":","s","u","b","C","l","a","s","s","O","f">>

K_domainIncludes ==
    <<"s","c","h","e","m","a",":","d","o","m","a","i","n","I","n","c","l","u","d","e","s">>

K_rangeIncludes ==
    <<"s","c","h","e","m","a",":","r","a","n","g","e","I","n","c","l","u","d","e","s">>

K_nskey == <<"n","s","k","e","y">>

Schema == <<"s","c","h","e","m","a">>

Dandi == <<"d","a","n","d","i">>

Entry(k, v) == [key |-> k, value |-> v]

\* the record types model2graph is run on
TypeNames == {<<"B","i","o","S","a","m","p","l","e">>}

LdmetaEntries ==
    { Entry(K_nskey, Dandi),
      Entry(K_subClassOf, <<"schema:Thing", "prov:Entity">>),
      Entry(K_label, <<"Label of ldmeta">>),
      Entry(K_comment, <<"Comment of ldmeta">>) }

FieldNames == {<<"a","B">>, <<"b">>, <<"B","a">>}

\* val.field_info of a field: None stands for a title or description that is
\* not declared and for a key that extra does not hold
FieldInfos ==
    {[nskey |-> None, title |-> None, description |-> None, rangeIncludes |-> None]}
    \cup
    {[nskey |-> Schema, title |-> t, description |-> t, rangeIncludes |-> t] :
        t \in {None, <<"declared">>}}
    \cup
    [nskey : {Dandi}, title : {None, <<"Title">>}, description : {None, <<"Description">>},
     rangeIncludes : {None, <<"schema:Date">>}]

\* the dicts of at most n entries with pairwise distinct keys, in every order
DictsOf(keys, infos, n) ==
    UNION { {d \in [1..k -> {Entry(a, v) : a \in keys, v \in infos}] :
                \A i, j \in 1..k : d[i].key = d[j].key => i = j}
            : k \in 0..n }

Ldmetas ==
    UNION { {d \in [1..k -> LdmetaEntries] : \A i, j \in 1..k : d[i] = d[j] => i = j}
            : k \in 0..Cardinality(LdmetaEntries) }

\* the _ldmeta most record types declare
UsualLdmetas ==
    { <<Entry(K_nskey, Dandi)>>,
      <<Entry(K_subClassOf, <<"schema:Thing", "prov:Entity">>), Entry(K_nskey, Dandi)>> }

\* a field that declares its prefix only, and one that declares nothing
PlainInfos ==
    { [nskey |-> n, title |-> None, description |-> None, rangeIncludes |-> None] :
        n \in {Dandi, None} }

\* every _ldmeta with at most one plain field, and the usual _ldmeta with
\* every choice of fields
Models ==
    [name : TypeNames, doc : {<<"Docstring">>}, ldmeta : Ldmetas,
     fields : DictsOf(FieldNames, PlainInfos, 1)]
    \cup
    [name : TypeNames, doc : {<<"Docstring">>}, ldmeta : UsualLdmetas,
     fields : DictsOf(FieldNames, FieldInfos, MaxFields)]

\* klass = {}; klass["rdfs:comment"] = ...; klass["rdfs:label"] = ...; klass["rdf:type"] = ...
KlassDefaults(mdl) ==
    DictSet(DictSet(DictSet(<<>>, K_comment, mdl.doc),
                    K_label, split_name(mdl.name)),
            K_rdf_type, <<"rdfs:Class">>)

\* a generator whose defaults win over the keys of _ldmeta
LdmetaStepKeepsDefault(k, mdl, e) ==
    IF e.key = K_nskey
    THEN DictSet(k, K_id, e.value \o <<":">> \o mdl.name)
    ELSE IF e.key \in Keys(k) THEN k ELSE DictSet(k, e.key, e.value)

\* one iteration of: for key, val in model._ldmeta.items()
LdmetaStep(k, mdl, e) ==
    IF e.key = K_nskey
    THEN DictSet(k, K_id, e.value \o <<":">> \o mdl.name)
    ELSE DictSet(k, e.key, e.value)

\* klass after the first n entries of model._ldmeta
RECURSIVE KlassAfter(_, _)
KlassAfter(mdl, n) ==
    IF n = 0 THEN KlassDefaults(mdl)
    ELSE LdmetaStep(KlassAfter(mdl, n - 1), mdl, mdl.ldmeta[n])

\* klass when the loop over model._ldmeta is over
Klass(mdl) == KlassAfter(mdl, Len(mdl.ldmeta))

\* a generator that reads the fields in declaration order
DeclaredFields(mdl) == mdl.fields

\* sorted(model.__fields__.items())
SortedFields(mdl) == Sorted(mdl.fields)

\* a generator that takes the label from the field name whatever the title
LabelFromName(key, val) == split_name(key)

\* if val.field_info.title: prop["rdfs:label"] = title else split_name(key)
PropLabel(key, val) == IF val.title # None THEN val.title ELSE split_name(key)

\* prop, before it is sorted
Prop(key, val, k) ==
    LET p1 == DictSet(<<>>, K_id, val.nskey \o <<":">> \o key)
        p2 == DictSet(p1, K_domainIncludes, Get(k, K_id))
        p3 == DictSet(p2, K_type, <<"rdf:Property">>)
        p4 == DictSet(p3, K_label, PropLabel(key, val))
        p5 == IF val.description # None
              THEN DictSet(p4, K_comment, val.description) ELSE p4
        p6 == IF val.rangeIncludes # None
              THEN DictSet(p5, K_rangeIncludes, val.rangeIncludes) ELSE p5
    IN  IF val.nskey # Schema THEN p6 ELSE p2

\* a generator that reads nskey with a default instead of raising
PropRaisesOnKlassOnly(val, k) == K_id \notin Keys(k)

\* val.field_info.extra["nskey"] or klass["@id"] raises KeyError
PropRaises(val, k) == val.nskey = None \/ K_id \notin Keys(k)

InitGraph ==
    /\ pc = "model2graph"
    /\ error = "none"
    /\ model \in Models
    /\ m2g_klass = <<>>
    /\ graph = <<>>
    /\ fidx = 1
    /\ terms_file = NotWritten
    /\ jsonld_doc = NoDoc
    /\ EnumIdle
    /\ SplitIdle
    /\ CheckIdle

\* lines 68-77: klass is built and graph starts with its sorted copy
BuildKlass ==
    /\ pc = "model2graph"
    /\ m2g_klass' = Klass(model)
    /\ graph' = <<Sorted(Klass(model))>>
    /\ pc' = "fields"
    /\ UNCHANGED <<error, model, fidx, terms_file, jsonld_doc, enumVars, splitVars, checkVars>>

\* lines 78-92: one iteration of the loop over the sorted fields
AppendProp ==
    /\ pc = "fields"
    /\ fidx <= Len(SortedFields(model))
    /\ LET f == SortedFields(model)[fidx]
       IN  /\ ~PropRaises(f.value, m2g_klass)
           /\ graph' = Append(graph, Sorted(Prop(f.key, f.value, m2g_klass)))
    /\ fidx' = fidx + 1
    /\ UNCHANGED <<pc, error, model, m2g_klass, terms_file, jsonld_doc, enumVars, splitVars, checkVars>>

\* lines 79 and 81: a missing nskey, or a klass without "@id", raises KeyError
PropKeyError ==
    /\ pc = "fields"
    /\ fidx <= Len(SortedFields(model))
    /\ PropRaises(SortedFields(model)[fidx].value, m2g_klass)
    /\ pc' = "raised"
    /\ error' = "KeyError"
    /\ UNCHANGED <<enumVars, splitVars, graphVars, checkVars>>

\* lines 93-96: the document is assembled and written to terms/<name>.yaml
Persist ==
    /\ pc = "fields"
    /\ fidx > Len(SortedFields(model))
    /\ terms_file' = [path |-> <<"terms/">> \o model.name \o <<".yaml">>,
                      banner |-> <<"# AUTOGENERATED - DO NOT EDIT\n">>,
                      doc |-> [context |-> <<"../context/base.json">>, graph |-> graph]]
    /\ pc' = "written"
    /\ UNCHANGED <<error, model, m2g_klass, graph, fidx, jsonld_doc, enumVars, splitVars, checkVars>>

\* line 97: return jsonld_doc
GraphReturn ==
    /\ pc = "written"
    /\ jsonld_doc' = [context |-> <<"../context/base.json">>, graph |-> graph]
    /\ pc' = "returned"
    /\ UNCHANGED <<error, model, m2g_klass, graph, fidx, terms_file, enumVars, splitVars, checkVars>>

NextGraph == BuildKlass \/ AppendProp \/ PropKeyError \/ Persist \/ GraphReturn

SpecGraph == InitGraph /\ [][NextGraph]_vars

(***************************************************************************)
(* DandisetMeta.check_data                                                 *)
(***************************************************************************)
MaxContributors == 3

MaxRoles == 2

ContactPerson == "dandi:ContactPerson"

RoleTypes == {ContactPerson, "dandi:Author"}

\* roleName: Optional[List[RoleType]]
RoleNames == {None} \cup UNION {[1..n -> RoleTypes] : n \in 0..MaxRoles}

Contributors == [roleName : RoleNames]

ContributorLists == UNION {[1..n -> Contributors] : n \in 0..MaxContributors}

\* a validator that accepts any contributor with a role
HasRole(val) == val.roleName # None /\ val.roleName # <<>>

\* val.roleName and RoleType.ContactPerson in val.roleName
IsContact(val) ==
    /\ val.roleName # None
    /\ val.roleName # <<>>
    /\ \E i \in DOMAIN val.roleName : val.roleName[i] = ContactPerson

InitCheck ==
    /\ pc = "check_data"
    /\ error = "none"
    /\ values \in ContributorLists
    /\ vidx = 1
    /\ contacts = <<>>
    /\ validated = NotValidated
    /\ EnumIdle
    /\ SplitIdle
    /\ GraphIdle

\* one iteration of: for val in values
CheckLoop ==
    /\ pc = "check_data"
    /\ vidx <= Len(values)
    /\ contacts' = IF IsContact(values[vidx])
                   THEN Append(contacts, values[vidx]) ELSE contacts
    /\ vidx' = vidx + 1
    /\ UNCHANGED <<pc, error, values, validated, enumVars, splitVars, graphVars>>

\* raise ValueError("At least one contributor must have role ContactPerson")
CheckRaise ==
    /\ pc = "check_data"
    /\ vidx > Len(values)
    /\ Len(contacts) = 0
    /\ pc' = "raised"
    /\ error' = "ValueError"
    /\ UNCHANGED <<checkVars, enumVars, splitVars, graphVars>>

\* return values
CheckReturn ==
    /\ pc = "check_data"
    /\ vidx > Len(values)
    /\ Len(contacts) # 0
    /\ validated' = [returned |-> TRUE, value |-> values]
    /\ pc' = "returned"
    /\ UNCHANGED <<error, values, vidx, contacts, enumVars, splitVars, graphVars>>

NextCheck == CheckLoop \/ CheckRaise \/ CheckReturn

SpecCheck == InitCheck /\ [][NextCheck]_vars

(***************************************************************************)
(* Properties of create_enum                                               *)
(***************************************************************************)
ClassCount(d) == Cardinality({i \in DOMAIN d : d[i].type = RdfsClass})

ItemCount(d) == Cardinality({i \in DOMAIN d : d[i].type # RdfsClass})

ClassComment(d) == d[CHOOSE i \in DOMAIN d : d[i].type = RdfsClass].comment

LoopDone == pc = "create_enum" /\ idx > Len(data)

Digits == {"0","1","2","3","4","5","6","7","8","9"}

IdentStart == Range(Lowers) \cup Range(Uppers) \cup {"_"}

IsIdentifier(k) ==
    /\ Len(k) > 0
    /\ k[1] \in IdentStart
    /\ \A i \in DOMAIN k : k[i] \in IdentStart \cup Digits

\* the loop is about to read an item whose candidate key is already collected
Colliding ==
    /\ pc = "create_enum"
    /\ idx <= Len(data)
    /\ data[idx].type # RdfsClass
    /\ CandidateKey(data[idx].id) \in Keys(items)

\* C1: on a document with exactly one class node and at least one item node,
\* create_enum returns an enumeration with as many members as the document has
\* item nodes and with the class node's rdfs:comment as documentation.
C1_MemberCountAndDoc ==
    (ClassCount(data) = 1 /\ ItemCount(data) >= 1 /\ pc # "create_enum") =>
        /\ pc = "returned"
        /\ Len(newklass.members) = ItemCount(data)
        /\ newklass.doc = ClassComment(data)

\* C2: when the candidate key of an item is already among the collected keys,
\* the item is stored under its full @id with ':' replaced by '_' (hyphens
\* normalised as for every key) and the earlier item keeps the short key.
C2_CollisionKeepsShortKey ==
    [][Colliding =>
        LET id == data[idx].id
            long == StoredKey(Replace(id, <<":">>, <<"_">>))
        IN  /\ long \in Keys(items')
            /\ Get(items', long) = id
            /\ CandidateKey(id) \in Keys(items')
            /\ Get(items', CandidateKey(id)) = Get(items, CandidateKey(id))]_vars

\* C3: on a document with no class node or with no item node create_enum
\* raises ValueError and returns no enumeration, not even a partial one.
C3_RaisesOnMissingClassOrItems ==
    (ClassCount(data) = 0 \/ ItemCount(data) = 0) =>
        /\ newklass = NoEnum
        /\ pc \in {"create_enum", "raised"}
        /\ LoopDone => Malformed(klass, items)
        /\ pc = "raised" => error = "ValueError"

C3_Witness ==
    /\ pc = "raised"
    /\ error = "ValueError"
    /\ ClassCount(data) = 0
    /\ Len(items) >= 2
    /\ newklass = NoEnum

\* C4: on a document with more than one class node create_enum fails: it
\* never returns an enumeration.
C4_RaisesOnSeveralClasses ==
    ClassCount(data) > 1 => pc # "returned"

\* C5: every member key collected by create_enum is a valid symbolic
\* identifier.
C5_KeysAreIdentifiers ==
    \A k \in Keys(items) : IsIdentifier(k)

\* C6: every member value is the unmodified @id of an item node of the
\* document, the one its key was derived from: the key is that @id's candidate
\* key or its long form, hyphens normalised; the value is never normalised.
C6_ValuesAreIds ==
    /\ \A m \in Range(items) :
          \E j \in 1..(idx - 1) :
              /\ data[j].type # RdfsClass
              /\ m.value = data[j].id
              /\ m.key \in { StoredKey(CandidateKey(data[j].id)),
                             StoredKey(Replace(data[j].id, <<":">>, <<"_">>)) }
    /\ pc = "returned" => newklass.members = items

C6_Witness ==
    /\ pc = "returned"
    /\ \E m \in Range(newklass.members) :
          /\ Contains(m.value, ":")
          /\ Contains(m.value, "-")
          /\ m.key = StoredKey(Replace(m.value, <<":">>, <<"_">>))

(***************************************************************************)
(* Properties of split_name                                                *)
(***************************************************************************)
IsUpperLetter(c) == c \in Range(Uppers)

IsLetter(c) == c \in Range(Uppers) \cup Range(Lowers)

LettersOnly(n) == n # <<>> /\ \A i \in DOMAIN n : IsLetter(n[i])

\* the phrase of a camel-case identifier: a new word before each uppercase
\* letter, the first word capitalized, the later words in lower case
RECURSIVE CamelTail(_)
CamelTail(n) ==
    IF n = <<>> THEN <<>>
    ELSE (IF IsUpperLetter(Head(n)) THEN <<" ", lower(Head(n))>> ELSE <<Head(n)>>)
         \o CamelTail(Tail(n))

CamelPhrase(n) == <<upper(Head(n))>> \o CamelTail(Tail(n))

AssayType == <<"A","s","s","a","y","T","y","p","e">>

Assay_type == <<"A","s","s","a","y"," ","t","y","p","e">>

numberOfBytes == <<"n","u","m","b","e","r","O","f","B","y","t","e","s">>

Number_of_bytes == <<"N","u","m","b","e","r"," ","o","f"," ","b","y","t","e","s">>

\* C7: on a non-empty identifier made of letters split_name returns its
\* camel-case phrase (a new word before each uppercase letter, single spaces,
\* first word capitalized, later words lower-cased); "AssayType" gives
\* "Assay type" and "numberOfBytes" gives "Number of bytes".
C7_CamelCasePhrase ==
    /\ (LettersOnly(name) /\ pc # "split_name") =>
          /\ pc # "raised"
          /\ label = CamelPhrase(name)
    /\ pc = "returned" =>
          /\ split_name(AssayType) = Assay_type
          /\ split_name(numberOfBytes) = Number_of_bytes

C7_Witness ==
    /\ pc = "returned"
    /\ LettersOnly(name)
    /\ Len(name) >= 4
    /\ ~IsUpperLetter(name[1])
    /\ Cardinality({i \in DOMAIN name : IsUpperLetter(name[i])}) >= 2
    /\ Len(Labels(name)) = 3

\* C8: split_name is idempotent: applied to a label it returned, it returns
\* that label.
C8_Idempotent ==
    /\ pc = "returned" => ~SplitNameRaises(label)
    /\ pc = "relabelled" => relabel = label

C8_Witness ==
    /\ pc = "relabelled"
    /\ LettersOnly(name)
    /\ label # name
    /\ Len(Labels(name)) >= 2
    /\ relabel = label

\* C9: on the empty string and on every one-character string split_name
\* returns without raising, and for one character it returns that character
\* capitalized.
C9_MinimalInput ==
    (Len(name) <= 1 /\ pc # "split_name") =>
        /\ pc # "raised"
        /\ Len(name) = 1 => label = <<upper(name[1])>>

(***************************************************************************)
(* Properties of model2graph                                               *)
(***************************************************************************)
\* the entries a field's descriptor determines, given the class node's @id
ExpectedProp(f, classId) ==
    { Entry(K_id, f.value.nskey \o <<":">> \o f.key),
      Entry(K_domainIncludes, classId) }
    \cup
    (IF f.value.nskey = Schema THEN {}
     ELSE { Entry(K_type, <<"rdf:Property">>),
            Entry(K_label, IF f.value.title # None
                           THEN f.value.title ELSE split_name(f.key)) }
          \cup (IF f.value.description # None
                THEN {Entry(K_comment, f.value.description)} ELSE {})
          \cup (IF f.value.rangeIncludes # None
                THEN {Entry(K_rangeIncludes, f.value.rangeIncludes)} ELSE {}))

\* the positions of the property nodes of g whose @id is id
PropNodes(g, id) == {i \in 2..Len(g) : Get(g[i], K_id) = id}

\* C10: in the document returned, the property node of every field has
\* exactly the entries its descriptor determines: @id and
\* schema:domainIncludes, and for a prefix other than 'schema' also @type,
\* rdfs:label (the title if declared, else split_name of the field name),
\* rdfs:comment iff a description is declared and schema:rangeIncludes iff a
\* range annotation is declared.
C10_PropertyNodes ==
    pc = "returned" =>
        LET g == jsonld_doc.graph
        IN  \A f \in Range(model.fields) :
                /\ Cardinality(PropNodes(g, f.value.nskey \o <<":">> \o f.key)) = 1
                /\ \A i \in PropNodes(g, f.value.nskey \o <<":">> \o f.key) :
                      /\ Range(g[i]) = ExpectedProp(f, Get(g[1], K_id))
                      /\ Len(g[i]) = Cardinality(ExpectedProp(f, Get(g[1], K_id)))
                      /\ f.value.nskey = Schema => Keys(g[i]) = {K_id, K_domainIncludes}

C10_Witness ==
    /\ pc = "returned"
    /\ Len(jsonld_doc.graph) = 3
    /\ \E f \in Range(model.fields) :
          f.value.nskey = Schema /\ f.value.title # None
    /\ \E f \in Range(model.fields) :
          /\ f.value.nskey = Dandi
          /\ f.value.title # None
          /\ f.value.description = None
          /\ f.value.rangeIncludes # None

\* the fields of the model that declare no nskey
Unprefixed == {f \in Range(model.fields) : f.value.nskey = None}

\* the number of fields whose name is less than that of f
Rank(f) == Cardinality({h \in Range(model.fields) : StrLess(h.key, f.key)})

\* C11: when a field of the record type declares no nskey, model2graph fails
\* with an error, returns no document and writes nothing to the output file:
\* the loop over the fields never ends, so the persist step is never reached,
\* wherever the field stands in field-name order.
C11_MissingNskeyWritesNothing ==
    Unprefixed # {} =>
        /\ terms_file = NotWritten
        /\ jsonld_doc = NoDoc
        /\ pc \in {"model2graph", "fields", "raised"}
        /\ pc = "fields" => fidx <= Len(model.fields)
        /\ pc = "raised" => error = "KeyError"

C11_Witness ==
    /\ pc = "raised"
    /\ error = "KeyError"
    /\ K_nskey \in Keys(model.ldmeta)
    /\ Len(model.fields) = 2
    /\ model.fields[1].value.nskey = None
    /\ Rank(model.fields[1]) = 1
    /\ Len(graph) = 2
    /\ terms_file = NotWritten

\* C12: the @graph of the document returned is the class node followed by
\* one property node per declared field, in ascending field-name order; its
\* length is 1 plus the number of fields.
C12_GraphOrder ==
    pc = "returned" =>
        LET g == jsonld_doc.graph
        IN  /\ Len(g) = 1 + Len(model.fields)
            /\ K_rdf_type \in Keys(g[1])
            /\ K_domainIncludes \notin Keys(g[1])
            /\ \A f \in Range(model.fields) :
                  /\ K_domainIncludes \in Keys(g[Rank(f) + 2])
                  /\ Get(g[Rank(f) + 2], K_id) = f.value.nskey \o <<":">> \o f.key

C12_Witness ==
    /\ pc = "returned"
    /\ Len(model.fields) = 2
    /\ StrLess(model.fields[2].key, model.fields[1].key)
    /\ Len(jsonld_doc.graph) = 3

\* the keys of a node ascend
KeysAscend(node) ==
    \A i, j \in DOMAIN node : i < j => StrLess(node[i].key, node[j].key)

\* C13: in the document returned, and in the document written, the keys of
\* the class node and of every property node are in ascending lexicographic
\* order, whatever the ldmeta keys and the fields.
C13_KeysSorted ==
    /\ pc = "returned" =>
          /\ \A i \in DOMAIN jsonld_doc.graph : KeysAscend(jsonld_doc.graph[i])
          /\ terms_file.doc = jsonld_doc
    /\ pc = "written" =>
          \A i \in DOMAIN terms_file.doc.graph : KeysAscend(terms_file.doc.graph[i])

C13_Witness ==
    /\ pc = "returned"
    /\ Len(model.ldmeta) >= 2
    /\ model.ldmeta[1].key = K_subClassOf
    /\ jsonld_doc.graph[1] # m2g_klass
    /\ \E i \in DOMAIN jsonld_doc.graph : Len(jsonld_doc.graph[i]) = 6

Bio_sample == <<"B","i","o"," ","s","a","m","p","l","e">>

\* the value the class node holds under key: that of _ldmeta if it declares
\* the key, else the default
ClassValue(key, default) ==
    IF key \in Keys(model.ldmeta) THEN Get(model.ldmeta, key) ELSE default

\* C14: the class node has rdf:type 'rdfs:Class', @id = <nskey>:<type name>,
\* rdfs:comment = the docstring and rdfs:label = split_name(type name), except
\* that every key of _ldmeta other than nskey is copied into the node
\* unchanged and replaces the default of the same key.
C14_ClassNode ==
    graph # <<>> =>
        LET node == graph[1]
        IN  /\ Keys(node) =
                  {K_rdf_type, K_comment, K_label}
                  \cup (Keys(model.ldmeta) \ {K_nskey})
                  \cup (IF K_nskey \in Keys(model.ldmeta) THEN {K_id} ELSE {})
            /\ Len(node) = Cardinality(Keys(node))
            /\ K_nskey \in Keys(model.ldmeta) =>
                  Get(node, K_id) = Get(model.ldmeta, K_nskey) \o <<":">> \o model.name
            /\ Get(node, K_rdf_type) = ClassValue(K_rdf_type, <<"rdfs:Class">>)
            /\ Get(node, K_comment) = ClassValue(K_comment, model.doc)
            /\ Get(node, K_label) = ClassValue(K_label, split_name(model.name))
            /\ Get(node, K_label) = ClassValue(K_label, Bio_sample)
            /\ \A e \in Range(model.ldmeta) :
                  e.key # K_nskey => Get(node, e.key) = e.value
            /\ pc = "returned" => jsonld_doc.graph[1] = node

C14_Witness ==
    /\ pc = "returned"
    /\ Keys(model.ldmeta) = {K_nskey, K_subClassOf, K_label, K_comment}
    /\ Get(jsonld_doc.graph[1], K_label) = <<"Label of ldmeta">>
    /\ Get(jsonld_doc.graph[1], K_comment) = <<"Comment of ldmeta">>
    /\ Get(jsonld_doc.graph[1], K_id) = Dandi \o <<":">> \o model.name

(***************************************************************************)
(* Properties of split_name: where it splits, what it capitalizes          *)
(***************************************************************************)
NoWhitespace(n) == \A i \in DOMAIN n : n[i] \notin Whitespace

Spaces(s) == {i \in DOMAIN s : s[i] = " "}

\* C15: split_name starts a new word before a character if and only if the
\* character is an uppercase letter: the label of a name without whitespace
\* has one separator per uppercase letter after the first character, so that
\* a name such as 'source_id' is not split at '_'.
C15_SplitsOnlyAtUppercase ==
    (pc = "returned" /\ NoWhitespace(name)) =>
        Cardinality(Spaces(label))
            = Cardinality({i \in 2..Len(name) : IsUpperLetter(name[i])})

\* C16: capitalizing the first word forces the case of its first character
\* only: the label starts with the first word of the name, its first
\* character upper-cased and its other characters as they were.
C16_FirstWordKeepsCase ==
    pc = "returned" =>
        LET w == Labels(name)[1]
        IN  /\ Len(label) >= Len(w)
            /\ label[1] = upper(w[1])
            /\ \A i \in 2..Len(w) : label[i] = w[i]
            /\ Len(label) > Len(w) => label[Len(w) + 1] = " "

C16_Witness ==
    /\ pc = "returned"
    /\ Len(Labels(name)) >= 2
    /\ Len(Labels(name)[1]) >= 2
    /\ name[1] \in Range(Lowers)
    /\ label[1] # name[1]

(***************************************************************************)
(* Properties of create_enum: the name of the enumeration                  *)
(***************************************************************************)
\* the @id of the last class node of d
LastClassId(d) ==
    d[CHOOSE i \in DOMAIN d :
        /\ d[i].type = RdfsClass
        /\ \A j \in DOMAIN d : d[j].type = RdfsClass => j <= i].id

\* id without a leading 'dandi:'
WithoutLeadingPrefix(id) ==
    IF StartsWith(id, DandiPrefix) THEN Tail_n(id, Len(DandiPrefix)) ELSE id

\* C17: the name of the enumeration returned is the class node's @id with a
\* leading 'dandi:' removed and the rest unchanged: a 'dandi:' that is not
\* leading stays, and an @id without the prefix is used as it is.
C17_NameStripsLeadingPrefix ==
    pc = "returned" => newklass.name = WithoutLeadingPrefix(LastClassId(data))

(***************************************************************************)
(* Properties of DandisetMeta.check_data                                   *)
(***************************************************************************)
\* some contributor of vs has a non-empty roleName that holds ContactPerson
HasContactPerson(vs) ==
    \E i \in DOMAIN vs :
        /\ vs[i].roleName # None
        /\ ContactPerson \in Range(vs[i].roleName)

\* C18: check_data returns the contributor list unchanged if and only if a
\* contributor of it has a non-empty roleName containing ContactPerson; for
\* every other list, the empty list and the lists without roleName included,
\* it raises ValueError.
C18_ContactPersonRequired ==
    /\ pc = "returned" =>
          /\ HasContactPerson(values)
          /\ validated = [returned |-> TRUE, value |-> values]
    /\ pc = "raised" =>
          /\ ~HasContactPerson(values)
          /\ error = "ValueError"
          /\ validated = NotValidated
    /\ (pc = "check_data" /\ vidx > Len(values)) =>
          (Len(contacts) # 0 <=> HasContactPerson(values))

C18_Witness ==
    /\ pc = "returned"
    /\ Len(values) = 2
    /\ values[1].roleName = None
    /\ Len(values[2].roleName) = 2
    /\ values[2].roleName[2] = ContactPerson
    /\ values[2].roleName[1] # ContactPerson

====
